---- MODULE Spec2Model ----
(***************************************************************************)
(* Model of src/src/ex_pg_query.c: the five NIFs of Elixir.ExPgQuery.Native *)
(* (parse_protobuf, deparse_protobuf, scan, fingerprint, normalize) and the *)
(* helpers they share (make_error, make_success, mk_cstr, validate_args,    *)
(* create_parse_error_map).                                                 *)
(*                                                                         *)
(* A NIF call is synchronous and keeps no state between calls, so one       *)
(* action models one whole call.  The state after a call holds the call's   *)
(* arguments, the term it returned, what the engine was handed and what it  *)
(* answered, and the trace of the native-memory events of the call in       *)
(* program order (allocations, engine and decoder calls, reads of the       *)
(* engine's result, frees).                                                 *)
(***************************************************************************)
EXTENDS Integers, Sequences, FiniteSets

VARIABLES op, argv, ret, prev

vars == <<op, argv, ret, prev>>

(***************************************************************************)
(* Bounds and program constants                                            *)
(***************************************************************************)

\* Longest explicitly enumerated byte prefix of a request buffer.
MaxLen == 3

\* Longest request buffer of the two-call specification.
MaxPairLen == 2

\* ex_pg_query.c:10-16
MAX_SQL_LENGTH == 16 * 1024 * 1024
MAX_PROTOBUF_LENGTH == 32 * 1024 * 1024

\* ex_pg_query.c:70.  The platform's SIZE_MAX (2^32-1 or 2^64-1) is beyond the
\* integers of the model; the largest integer of the model stands for it.
\* Every size the model builds is below MAX_PROTOBUF_LENGTH + 2, far below
\* either value, so the comparison of mk_cstr has the same outcome.
SIZE_MAX == 2147483647

(***************************************************************************)
(* Erlang terms handed to a NIF.  A binary is written run-length: the bytes *)
(* of data followed by fill more bytes, all of them the non-zero byte 1, so *)
(* that buffers at and just above the 16 MiB and 32 MiB ceilings are terms  *)
(* of the model.  Byte 0 is the zero byte.                                  *)
(***************************************************************************)
Bytes == {0, 1}

SeqsUpTo(S, n) == UNION {[1..k -> S] : k \in 0..n}

Datas == SeqsUpTo(Bytes, MaxLen)

Ceilings == {MAX_SQL_LENGTH, MAX_PROTOBUF_LENGTH}

Fills(d) == {0} \cup {c - Len(d) + k : c \in Ceilings, k \in {0, 1}}

Bin(d, f) == [kind |-> "binary", data |-> d, fill |-> f]

Binaries == UNION {{Bin(d, f) : f \in Fills(d)} : d \in Datas}

SmallBinaries == {Bin(d, 0) : d \in Datas}

NonBinaries ==
  {[kind |-> k, data |-> <<>>, fill |-> 0] : k \in {"atom", "integer", "list", "bitstring"}}

Terms == Binaries \cup NonBinaries

\* Argument lists: none, one term, or two terms.
Argvs ==
  {<<>>} \cup {<<t>> : t \in Terms}
         \cup {<<t, u>> : t \in NonBinaries \cup SmallBinaries, u \in {Bin(<<>>, 0)}}

\* The argument lists of the two-call specification: buffers with explicit
\* bytes only, and one failing list per boundary check.
PairArgvs ==
  {<<>>} \cup {<<Bin(d, 0)>> : d \in SeqsUpTo(Bytes, MaxPairLen)}
         \cup {<<[kind |-> "atom", data |-> <<>>, fill |-> 0]>>}
         \cup {<<Bin(<<>>, c + 1)>> : c \in Ceilings}

\* ErlNifBinary.size
Size(b) == Len(b.data) + b.fill

enif_is_binary(t) == t.kind = "binary"

\* enif_inspect_binary fails on a term that is not a binary; on a binary,
\* inspect is what the host answers.
enif_inspect_binary(t, inspect) == t.kind = "binary" /\ inspect

(***************************************************************************)
(* Terms returned to the caller                                            *)
(***************************************************************************)
Binary(text) == [binary |-> text]
Integer(n) == [int |-> n]
Tuple2(tag, t) == [tag |-> tag, term |-> t]

NoTerm == [tag |-> "none", term |-> [none |-> TRUE]]

\* {:error, message}
make_error(message) == Tuple2("error", Binary(message))

\* {:ok, data}
make_success(data) == Tuple2("ok", Binary(data))

(***************************************************************************)
(* Events of a call                                                        *)
(***************************************************************************)
Ev(f, x, fld) == [f |-> f, x |-> x, fld |-> fld]

NoArg == [none |-> TRUE]
NoRes == [none |-> TRUE]

Outcome(valid, result, trace, engineArg, engineRes) ==
  [valid |-> valid, result |-> result, trace |-> trace,
   engineArg |-> engineArg, engineRes |-> engineRes]

NoRet == Outcome(FALSE, NoTerm, <<>>, NoArg, NoRes)

\* Variant of validate_args: a buffer of exactly max_length is refused.
validate_args_sizeGe(a, max_length, inspect) ==
  IF Len(a) # 1
    THEN [ok |-> FALSE, binary |-> Bin(<<>>, 0), trace |-> <<>>,
          error_term |-> make_error("invalid number of arguments")]
  ELSE IF ~enif_is_binary(a[1])
    THEN [ok |-> FALSE, binary |-> Bin(<<>>, 0), trace |-> <<>>,
          error_term |-> make_error("argument must be a binary")]
  ELSE IF ~enif_inspect_binary(a[1], inspect)
    THEN [ok |-> FALSE, binary |-> Bin(<<>>, 0),
          trace |-> <<Ev("enif_inspect_binary_failed", "argv", "")>>,
          error_term |-> make_error("failed to inspect binary input")]
  ELSE IF Size(a[1]) >= max_length
    THEN [ok |-> FALSE, binary |-> a[1], trace |-> <<>>,
          error_term |-> make_error("input too large")]
  ELSE [ok |-> TRUE, binary |-> a[1], trace |-> <<>>, error_term |-> NoTerm]

\* Variant of validate_args: the size is not checked.
validate_args_noSizeCheck(a, max_length, inspect) ==
  IF Len(a) # 1
    THEN [ok |-> FALSE, binary |-> Bin(<<>>, 0), trace |-> <<>>,
          error_term |-> make_error("invalid number of arguments")]
  ELSE IF ~enif_is_binary(a[1])
    THEN [ok |-> FALSE, binary |-> Bin(<<>>, 0), trace |-> <<>>,
          error_term |-> make_error("argument must be a binary")]
  ELSE IF ~enif_inspect_binary(a[1], inspect)
    THEN [ok |-> FALSE, binary |-> Bin(<<>>, 0),
          trace |-> <<Ev("enif_inspect_binary_failed", "argv", "")>>,
          error_term |-> make_error("failed to inspect binary input")]
  ELSE IF FALSE
    THEN [ok |-> FALSE, binary |-> a[1], trace |-> <<>>,
          error_term |-> make_error("input too large")]
  ELSE [ok |-> TRUE, binary |-> a[1], trace |-> <<>>, error_term |-> NoTerm]

(***************************************************************************)
(* validate_args, ex_pg_query.c:99-124.  Returns whether validation         *)
(* succeeded, the inspected binary, and the error term it set otherwise.   *)
(* inspect is what the host answers to enif_inspect_binary on a binary; a   *)
(* failed inspection is the one event validation leaves in the trace.       *)
(***************************************************************************)
validate_args(a, max_length, inspect) ==
  IF Len(a) # 1
    THEN [ok |-> FALSE, binary |-> Bin(<<>>, 0), trace |-> <<>>,
          error_term |-> make_error("invalid number of arguments")]
  ELSE IF ~enif_is_binary(a[1])
    THEN [ok |-> FALSE, binary |-> Bin(<<>>, 0), trace |-> <<>>,
          error_term |-> make_error("argument must be a binary")]
  ELSE IF ~enif_inspect_binary(a[1], inspect)
    THEN [ok |-> FALSE, binary |-> Bin(<<>>, 0),
          trace |-> <<Ev("enif_inspect_binary_failed", "argv", "")>>,
          error_term |-> make_error("failed to inspect binary input")]
  ELSE IF Size(a[1]) > max_length
    THEN [ok |-> FALSE, binary |-> a[1], trace |-> <<>>,
          error_term |-> make_error("input too large")]
  ELSE [ok |-> TRUE, binary |-> a[1], trace |-> <<>>, error_term |-> NoTerm]

(***************************************************************************)
(* mk_cstr, ex_pg_query.c:67-87.  The buffer it returns holds size + 1      *)
(* bytes: the bytes of the binary and a zero byte written at index size.    *)
(* alloc is whether enif_alloc returned memory.                             *)
(***************************************************************************)
NoStr == [data |-> <<>>, fill |-> 0, term |-> <<>>]

\* Variant of mk_cstr: one byte too few is copied.
mk_cstr_dropLastByte(binary, alloc) ==
  IF Size(binary) >= SIZE_MAX - 1
    THEN [ok |-> FALSE, str |-> NoStr,
          error_term |-> make_error("input size too large"), trace |-> <<>>]
  ELSE IF ~alloc
    THEN [ok |-> FALSE, str |-> NoStr,
          error_term |-> make_error("memory allocation failed"),
          trace |-> <<Ev("enif_alloc_failed", "query_str", "")>>]
  ELSE [ok |-> TRUE,
        str |-> [data |-> SubSeq(binary.data, 1, Len(binary.data) - 1),
                fill |-> binary.fill, term |-> <<0>>],
        error_term |-> NoTerm,
        trace |-> <<Ev("enif_alloc", "query_str", "")>>]

mk_cstr(binary, alloc) ==
  IF Size(binary) >= SIZE_MAX - 1
    THEN [ok |-> FALSE, str |-> NoStr,
          error_term |-> make_error("input size too large"), trace |-> <<>>]
  ELSE IF ~alloc
    THEN [ok |-> FALSE, str |-> NoStr,
          error_term |-> make_error("memory allocation failed"),
          trace |-> <<Ev("enif_alloc_failed", "query_str", "")>>]
  ELSE [ok |-> TRUE,
        str |-> [data |-> binary.data, fill |-> binary.fill, term |-> <<0>>],
        error_term |-> NoTerm,
        trace |-> <<Ev("enif_alloc", "query_str", "")>>]

(***************************************************************************)
(* What a reader of a C string reads from a buffer: the bytes before its    *)
(* first zero byte.  The fill bytes are non-zero.                           *)
(***************************************************************************)
Min(x, y) == IF x <= y THEN x ELSE y

\* Index of the first zero byte of d; Len(d) + 1 when it has none.
FirstZero(d) ==
  LET Z == {i \in 1..Len(d) : d[i] = 0}
  IN  IF Z = {} THEN Len(d) + 1 ELSE CHOOSE i \in Z : \A j \in Z : i <= j

CStrView(str) ==
  IF FirstZero(str.data) <= Len(str.data)
    THEN [data |-> SubSeq(str.data, 1, FirstZero(str.data) - 1), fill |-> 0]
    ELSE [data |-> str.data, fill |-> str.fill]

strlen(view) == Len(view.data) + view.fill

(***************************************************************************)
(* The engine (libpg_query).  An entry point answers with a result holding  *)
(* either error = NULL and the produced output, or an error with a message  *)
(* and a 1-indexed cursor position (0: no location) in the text it read.    *)
(* The answer is chosen by an oracle; the position it selects is within     *)
(* 0 .. n + 1 for a text of n bytes (n + 1: error at end of input).         *)
(***************************************************************************)
\* The message is whatever text the engine wrote; the NIFs pass it through
\* unfiltered (ex_pg_query.c:210, 310, 436), so nothing keeps it apart from
\* the texts the boundary layer itself returns.
EngineMessages ==
  {"syntax error at end of input", "syntax error at or near", "input too large"}

CursorSelectors == {"none", "first", "last", "end"}

Oracles ==
  {[err |-> FALSE, message |-> "", k |-> "none", out |-> o.out, fp |-> o.fp] :
      o \in {[out |-> "a", fp |-> 1], [out |-> "b", fp |-> 2]}}
  \cup
  {[err |-> TRUE, message |-> m, k |-> k, out |-> "", fp |-> 0] :
      m \in EngineMessages, k \in CursorSelectors}

Cursor(n, k) ==
  CASE k = "none"  -> 0
    [] k = "first" -> 1
    [] k = "last"  -> n
    [] k = "end"   -> n + 1

\* The Native Result an entry point returns for a text of n bytes.
PgQueryResult(n, o) ==
  [err |-> o.err, message |-> o.message,
   cursorpos |-> IF o.err THEN Cursor(n, o.k) ELSE 0,
   out |-> o.out, fp |-> o.fp]

\* The responses of the environment to one call.
Env(inspect, alloc, unpack, check, o, put1, put2) ==
  [inspect |-> inspect, alloc |-> alloc, unpack |-> unpack, check |-> check,
   oracle |-> o, put1 |-> put1, put2 |-> put2]

\* Variant of create_parse_error_map: the position is returned 1-indexed.
create_parse_error_map_noDecrement(error, put1, put2) ==
  IF ~put1
    THEN [term |-> make_error("failed to create error map"),
          trace |-> <<Ev("read", "result", "error.message"),
                      Ev("enif_make_map_put_failed", "error_map", "message")>>]
  ELSE IF ~put2
    THEN [term |-> make_error("failed to create error map"),
          trace |-> <<Ev("read", "result", "error.message"),
                      Ev("enif_make_map_put", "error_map", "message"),
                      Ev("read", "result", "error.cursorpos"),
                      Ev("enif_make_map_put_failed", "error_map", "cursorpos")>>]
  ELSE [term |-> Tuple2("error",
                   [map |-> [message |-> Binary(error.message),
                             cursorpos |-> Integer(error.cursorpos)]]),
        trace |-> <<Ev("read", "result", "error.message"),
                    Ev("enif_make_map_put", "error_map", "message"),
                    Ev("read", "result", "error.cursorpos"),
                    Ev("enif_make_map_put", "error_map", "cursorpos")>>]

(***************************************************************************)
(* create_parse_error_map, ex_pg_query.c:133-160.  put1 and put2 are        *)
(* whether the two enif_make_map_put calls succeed.  The arguments of a     *)
(* call are evaluated before it: error->cursorpos is read before the        *)
(* second put.                                                              *)
(***************************************************************************)
create_parse_error_map(error, put1, put2) ==
  IF ~put1
    THEN [term |-> make_error("failed to create error map"),
          trace |-> <<Ev("read", "result", "error.message"),
                      Ev("enif_make_map_put_failed", "error_map", "message")>>]
  ELSE IF ~put2
    THEN [term |-> make_error("failed to create error map"),
          trace |-> <<Ev("read", "result", "error.message"),
                      Ev("enif_make_map_put", "error_map", "message"),
                      Ev("read", "result", "error.cursorpos"),
                      Ev("enif_make_map_put_failed", "error_map", "cursorpos")>>]
  ELSE [term |-> Tuple2("error",
                   [map |-> [message |-> Binary(error.message),
                             cursorpos |-> Integer(error.cursorpos - 1)]]),
        trace |-> <<Ev("read", "result", "error.message"),
                    Ev("enif_make_map_put", "error_map", "message"),
                    Ev("read", "result", "error.cursorpos"),
                    Ev("enif_make_map_put", "error_map", "cursorpos")>>]

(***************************************************************************)
(* parse_protobuf, ex_pg_query.c:233-271                                   *)
(***************************************************************************)
parse_protobuf(a, e) ==
  LET v == validate_args(a, MAX_SQL_LENGTH, e.inspect) IN
  IF ~v.ok THEN Outcome(FALSE, v.error_term, v.trace, NoArg, NoRes)
  ELSE
  LET m == mk_cstr(v.binary, e.alloc) IN
  IF ~m.ok THEN Outcome(TRUE, m.error_term, m.trace, NoArg, NoRes)
  ELSE
  LET view   == CStrView(m.str)
      result == PgQueryResult(strlen(view), e.oracle)
      called == m.trace \o <<Ev("engine", "result", "pg_query_parse_protobuf"),
                             Ev("enif_free", "query_str", ""),
                             Ev("read", "result", "error")>>
  IN
  IF result.err
    THEN LET em == create_parse_error_map(result, e.put1, e.put2)
         IN  Outcome(TRUE, em.term,
                     called \o em.trace
                       \o <<Ev("release", "result", "pg_query_free_protobuf_parse_result")>>,
                     view, result)
    ELSE Outcome(TRUE, make_success(result.out),
                 called \o <<Ev("read", "result", "parse_tree.data"),
                             Ev("read", "result", "parse_tree.len"),
                             Ev("release", "result", "pg_query_free_protobuf_parse_result")>>,
                 view, result)

\* Variant of deparse_protobuf: a payload that fails the check is deparsed all the same.
deparse_protobuf_ignoreCheck(a, e) ==
  LET v == validate_args(a, MAX_PROTOBUF_LENGTH, e.inspect) IN
  IF ~v.ok THEN Outcome(FALSE, v.error_term, v.trace, NoArg, NoRes)
  ELSE IF ~e.unpack
    THEN Outcome(TRUE, make_error("invalid protobuf message format"),
                 <<Ev("unpack_failed", "msg", "")>>, NoArg, NoRes)
  ELSE IF FALSE
    THEN Outcome(TRUE, make_error("invalid protobuf message format"),
                 <<Ev("unpack", "msg", ""), Ev("check", "msg", "false"),
                   Ev("free_unpacked", "msg", "")>>, NoArg, NoRes)
  ELSE
  LET protobuf == [len |-> Size(v.binary), data |-> v.binary.data,
                   fill |-> v.binary.fill]
      result == PgQueryResult(protobuf.len, e.oracle)
      called == <<Ev("unpack", "msg", ""), Ev("check", "msg", IF e.check THEN "true" ELSE "false"),
                  Ev("free_unpacked", "msg", ""),
                  Ev("engine", "result", "pg_query_deparse_protobuf"),
                  Ev("read", "result", "error")>>
  IN
  IF result.err
    THEN Outcome(TRUE, make_error(result.message),
                 called \o <<Ev("read", "result", "error.message"),
                             Ev("release", "result", "pg_query_free_deparse_result")>>,
                 protobuf, result)
    ELSE Outcome(TRUE, make_success(result.out),
                 called \o <<Ev("read", "result", "query"),
                             Ev("release", "result", "pg_query_free_deparse_result")>>,
                 protobuf, result)

\* Variant of deparse_protobuf: the decoded structure is not freed when the check fails.
deparse_protobuf_leakOnCheckFailure(a, e) ==
  LET v == validate_args(a, MAX_PROTOBUF_LENGTH, e.inspect) IN
  IF ~v.ok THEN Outcome(FALSE, v.error_term, v.trace, NoArg, NoRes)
  ELSE IF ~e.unpack
    THEN Outcome(TRUE, make_error("invalid protobuf message format"),
                 <<Ev("unpack_failed", "msg", "")>>, NoArg, NoRes)
  ELSE IF ~e.check
    THEN Outcome(TRUE, make_error("invalid protobuf message format"),
                 <<Ev("unpack", "msg", ""), Ev("check", "msg", "false")>>, NoArg, NoRes)
  ELSE
  LET protobuf == [len |-> Size(v.binary), data |-> v.binary.data,
                   fill |-> v.binary.fill]
      result == PgQueryResult(protobuf.len, e.oracle)
      called == <<Ev("unpack", "msg", ""), Ev("check", "msg", "true"),
                  Ev("free_unpacked", "msg", ""),
                  Ev("engine", "result", "pg_query_deparse_protobuf"),
                  Ev("read", "result", "error")>>
  IN
  IF result.err
    THEN Outcome(TRUE, make_error(result.message),
                 called \o <<Ev("read", "result", "error.message"),
                             Ev("release", "result", "pg_query_free_deparse_result")>>,
                 protobuf, result)
    ELSE Outcome(TRUE, make_success(result.out),
                 called \o <<Ev("read", "result", "query"),
                             Ev("release", "result", "pg_query_free_deparse_result")>>,
                 protobuf, result)

(***************************************************************************)
(* deparse_protobuf, ex_pg_query.c:173-221.  unpack is whether              *)
(* pg_query__parse_result__unpack returned a message, check what            *)
(* protobuf_c_message_check answered for it.  The engine is handed          *)
(* {len, data} of the request binary itself.                                *)
(***************************************************************************)
deparse_protobuf(a, e) ==
  LET v == validate_args(a, MAX_PROTOBUF_LENGTH, e.inspect) IN
  IF ~v.ok THEN Outcome(FALSE, v.error_term, v.trace, NoArg, NoRes)
  ELSE IF ~e.unpack
    THEN Outcome(TRUE, make_error("invalid protobuf message format"),
                 <<Ev("unpack_failed", "msg", "")>>, NoArg, NoRes)
  ELSE IF ~e.check
    THEN Outcome(TRUE, make_error("invalid protobuf message format"),
                 <<Ev("unpack", "msg", ""), Ev("check", "msg", "false"),
                   Ev("free_unpacked", "msg", "")>>, NoArg, NoRes)
  ELSE
  LET protobuf == [len |-> Size(v.binary), data |-> v.binary.data,
                   fill |-> v.binary.fill]
      result == PgQueryResult(protobuf.len, e.oracle)
      called == <<Ev("unpack", "msg", ""), Ev("check", "msg", "true"),
                  Ev("free_unpacked", "msg", ""),
                  Ev("engine", "result", "pg_query_deparse_protobuf"),
                  Ev("read", "result", "error")>>
  IN
  IF result.err
    THEN Outcome(TRUE, make_error(result.message),
                 called \o <<Ev("read", "result", "error.message"),
                             Ev("release", "result", "pg_query_free_deparse_result")>>,
                 protobuf, result)
    ELSE Outcome(TRUE, make_success(result.out),
                 called \o <<Ev("read", "result", "query"),
                             Ev("release", "result", "pg_query_free_deparse_result")>>,
                 protobuf, result)

\* Variant of fingerprint: the result is not released when the first map entry cannot be added.
fingerprint_leakOnPutFailure(a, e) ==
  LET v == validate_args(a, MAX_SQL_LENGTH, e.inspect) IN
  IF ~v.ok THEN Outcome(FALSE, v.error_term, v.trace, NoArg, NoRes)
  ELSE
  LET m == mk_cstr(v.binary, e.alloc) IN
  IF ~m.ok THEN Outcome(TRUE, m.error_term, m.trace, NoArg, NoRes)
  ELSE
  LET view   == CStrView(m.str)
      result == PgQueryResult(strlen(view), e.oracle)
      called == m.trace \o <<Ev("engine", "result", "pg_query_fingerprint"),
                             Ev("enif_free", "query_str", ""),
                             Ev("read", "result", "error")>>
      built  == called \o <<Ev("read", "result", "fingerprint"),
                            Ev("read", "result", "fingerprint_str")>>
  IN
  IF result.err
    THEN Outcome(TRUE, make_error(result.message),
                 called \o <<Ev("read", "result", "error.message"),
                             Ev("release", "result", "pg_query_free_fingerprint_result")>>,
                 view, result)
  ELSE IF ~e.put1
    THEN Outcome(TRUE, make_error("failed to create result map"),
                 built \o <<Ev("enif_make_map_put_failed", "map", "fingerprint")>>,
                 view, result)
  ELSE IF ~e.put2
    THEN Outcome(TRUE, make_error("failed to create result map"),
                 built \o <<Ev("enif_make_map_put", "map", "fingerprint"),
                            Ev("enif_make_map_put_failed", "map", "fingerprint_str"),
                            Ev("release", "result", "pg_query_free_fingerprint_result")>>,
                 view, result)
  ELSE Outcome(TRUE,
               Tuple2("ok", [map |-> [fingerprint |-> Integer(result.fp),
                                      fingerprint_str |-> Binary(result.out)]]),
               built \o <<Ev("enif_make_map_put", "map", "fingerprint"),
                          Ev("enif_make_map_put", "map", "fingerprint_str"),
                          Ev("release", "result", "pg_query_free_fingerprint_result")>>,
               view, result)

(***************************************************************************)
(* fingerprint, ex_pg_query.c:285-348.  put1 and put2 are whether the two   *)
(* enif_make_map_put calls succeed; the second is not made when the first   *)
(* fails.                                                                   *)
(***************************************************************************)
fingerprint(a, e) ==
  LET v == validate_args(a, MAX_SQL_LENGTH, e.inspect) IN
  IF ~v.ok THEN Outcome(FALSE, v.error_term, v.trace, NoArg, NoRes)
  ELSE
  LET m == mk_cstr(v.binary, e.alloc) IN
  IF ~m.ok THEN Outcome(TRUE, m.error_term, m.trace, NoArg, NoRes)
  ELSE
  LET view   == CStrView(m.str)
      result == PgQueryResult(strlen(view), e.oracle)
      called == m.trace \o <<Ev("engine", "result", "pg_query_fingerprint"),
                             Ev("enif_free", "query_str", ""),
                             Ev("read", "result", "error")>>
      built  == called \o <<Ev("read", "result", "fingerprint"),
                            Ev("read", "result", "fingerprint_str")>>
  IN
  IF result.err
    THEN Outcome(TRUE, make_error(result.message),
                 called \o <<Ev("read", "result", "error.message"),
                             Ev("release", "result", "pg_query_free_fingerprint_result")>>,
                 view, result)
  ELSE IF ~e.put1
    THEN Outcome(TRUE, make_error("failed to create result map"),
                 built \o <<Ev("enif_make_map_put_failed", "map", "fingerprint"),
                            Ev("release", "result", "pg_query_free_fingerprint_result")>>,
                 view, result)
  ELSE IF ~e.put2
    THEN Outcome(TRUE, make_error("failed to create result map"),
                 built \o <<Ev("enif_make_map_put", "map", "fingerprint"),
                            Ev("enif_make_map_put_failed", "map", "fingerprint_str"),
                            Ev("release", "result", "pg_query_free_fingerprint_result")>>,
                 view, result)
  ELSE Outcome(TRUE,
               Tuple2("ok", [map |-> [fingerprint |-> Integer(result.fp),
                                      fingerprint_str |-> Binary(result.out)]]),
               built \o <<Ev("enif_make_map_put", "map", "fingerprint"),
                          Ev("enif_make_map_put", "map", "fingerprint_str"),
                          Ev("release", "result", "pg_query_free_fingerprint_result")>>,
               view, result)

(***************************************************************************)
(* scan, ex_pg_query.c:361-398                                             *)
(***************************************************************************)
scan(a, e) ==
  LET v == validate_args(a, MAX_SQL_LENGTH, e.inspect) IN
  IF ~v.ok THEN Outcome(FALSE, v.error_term, v.trace, NoArg, NoRes)
  ELSE
  LET m == mk_cstr(v.binary, e.alloc) IN
  IF ~m.ok THEN Outcome(TRUE, m.error_term, m.trace, NoArg, NoRes)
  ELSE
  LET view   == CStrView(m.str)
      result == PgQueryResult(strlen(view), e.oracle)
      called == m.trace \o <<Ev("engine", "result", "pg_query_scan"),
                             Ev("enif_free", "query_str", ""),
                             Ev("read", "result", "error")>>
  IN
  IF result.err
    THEN LET em == create_parse_error_map(result, e.put1, e.put2)
         IN  Outcome(TRUE, em.term,
                     called \o em.trace
                       \o <<Ev("release", "result", "pg_query_free_scan_result")>>,
                     view, result)
    ELSE Outcome(TRUE, make_success(result.out),
                 called \o <<Ev("read", "result", "pbuf.data"),
                             Ev("read", "result", "pbuf.len"),
                             Ev("release", "result", "pg_query_free_scan_result")>>,
                 view, result)

\* Variant of normalize: the copy is not freed when the engine fails.
normalize_noFreeOnError(a, e) ==
  LET v == validate_args(a, MAX_SQL_LENGTH, e.inspect) IN
  IF ~v.ok THEN Outcome(FALSE, v.error_term, v.trace, NoArg, NoRes)
  ELSE
  LET m == mk_cstr(v.binary, e.alloc) IN
  IF ~m.ok THEN Outcome(TRUE, m.error_term, m.trace, NoArg, NoRes)
  ELSE
  LET view   == CStrView(m.str)
      result == PgQueryResult(strlen(view), e.oracle)
      called == m.trace \o <<Ev("engine", "result", "pg_query_normalize"),
                             Ev("enif_free", "query_str", ""),
                             Ev("read", "result", "error")>>
  IN
  IF result.err
    THEN Outcome(TRUE, make_error(result.message),
                 <<called[1], called[2], called[4]>>
                   \o <<Ev("read", "result", "error.message"),
                             Ev("release", "result", "pg_query_free_normalize_result")>>,
                 view, result)
    ELSE Outcome(TRUE, make_success(result.out),
                 called \o <<Ev("read", "result", "normalized_query"),
                             Ev("release", "result", "pg_query_free_normalize_result")>>,
                 view, result)

\* Variant of normalize: the result is released before its error message is copied.
normalize_releaseBeforeRead(a, e) ==
  LET v == validate_args(a, MAX_SQL_LENGTH, e.inspect) IN
  IF ~v.ok THEN Outcome(FALSE, v.error_term, v.trace, NoArg, NoRes)
  ELSE
  LET m == mk_cstr(v.binary, e.alloc) IN
  IF ~m.ok THEN Outcome(TRUE, m.error_term, m.trace, NoArg, NoRes)
  ELSE
  LET view   == CStrView(m.str)
      result == PgQueryResult(strlen(view), e.oracle)
      called == m.trace \o <<Ev("engine", "result", "pg_query_normalize"),
                             Ev("enif_free", "query_str", ""),
                             Ev("read", "result", "error")>>
  IN
  IF result.err
    THEN Outcome(TRUE, make_error(result.message),
                 called \o <<Ev("release", "result", "pg_query_free_normalize_result"),
                             Ev("read", "result", "error.message")>>,
                 view, result)
    ELSE Outcome(TRUE, make_success(result.out),
                 called \o <<Ev("read", "result", "normalized_query"),
                             Ev("release", "result", "pg_query_free_normalize_result")>>,
                 view, result)

(***************************************************************************)
(* normalize, ex_pg_query.c:411-450                                        *)
(***************************************************************************)
normalize(a, e) ==
  LET v == validate_args(a, MAX_SQL_LENGTH, e.inspect) IN
  IF ~v.ok THEN Outcome(FALSE, v.error_term, v.trace, NoArg, NoRes)
  ELSE
  LET m == mk_cstr(v.binary, e.alloc) IN
  IF ~m.ok THEN Outcome(TRUE, m.error_term, m.trace, NoArg, NoRes)
  ELSE
  LET view   == CStrView(m.str)
      result == PgQueryResult(strlen(view), e.oracle)
      called == m.trace \o <<Ev("engine", "result", "pg_query_normalize"),
                             Ev("enif_free", "query_str", ""),
                             Ev("read", "result", "error")>>
  IN
  IF result.err
    THEN Outcome(TRUE, make_error(result.message),
                 called \o <<Ev("read", "result", "error.message"),
                             Ev("release", "result", "pg_query_free_normalize_result")>>,
                 view, result)
    ELSE Outcome(TRUE, make_success(result.out),
                 called \o <<Ev("read", "result", "normalized_query"),
                             Ev("release", "result", "pg_query_free_normalize_result")>>,
                 view, result)

(***************************************************************************)
(* The calls and the specifications                                        *)
(***************************************************************************)
NoCall == [op |-> "none", argv |-> <<>>, ret |-> NoRet]

\* The responses the text operations consume: enif_inspect_binary,
\* enif_alloc, the engine, and (parse_protobuf, scan, fingerprint) the two
\* enif_make_map_put calls.
StrEnvs ==
  {Env(inspect, alloc, TRUE, TRUE, o, put1, put2) :
     inspect \in BOOLEAN, alloc \in BOOLEAN, o \in Oracles,
     put1 \in BOOLEAN, put2 \in BOOLEAN}

NormalizeEnvs ==
  {Env(inspect, alloc, TRUE, TRUE, o, TRUE, TRUE) :
     inspect \in BOOLEAN, alloc \in BOOLEAN, o \in Oracles}

\* The responses deparse_protobuf consumes: enif_inspect_binary, the decoder,
\* the check, the engine.
DeparseEnvs ==
  {Env(inspect, TRUE, unpack, check, o, TRUE, TRUE) :
     inspect \in BOOLEAN, unpack \in BOOLEAN, check \in BOOLEAN, o \in Oracles}

Init == op = "none" /\ argv = <<>> /\ ret = NoRet /\ prev = NoCall

NifParseProtobuf(A) ==
  \E a \in A, e \in StrEnvs :
    /\ op' = "parse_protobuf"
    /\ argv' = a
    /\ ret' = parse_protobuf(a, e)

NifDeparseProtobuf(A) ==
  \E a \in A, e \in DeparseEnvs :
    /\ op' = "deparse_protobuf"
    /\ argv' = a
    /\ ret' = deparse_protobuf(a, e)

NifScan(A) ==
  \E a \in A, e \in StrEnvs :
    /\ op' = "scan"
    /\ argv' = a
    /\ ret' = scan(a, e)

NifFingerprint(A) ==
  \E a \in A, e \in StrEnvs :
    /\ op' = "fingerprint"
    /\ argv' = a
    /\ ret' = fingerprint(a, e)

NifNormalize(A) ==
  \E a \in A, e \in NormalizeEnvs :
    /\ op' = "normalize"
    /\ argv' = a
    /\ ret' = normalize(a, e)

\* The call has returned; nothing of it is kept.
Return ==
  /\ op # "none"
  /\ op' = "none" /\ argv' = <<>> /\ ret' = NoRet
  /\ UNCHANGED prev

Next ==
  \/ op = "none" /\ NifParseProtobuf(Argvs) /\ UNCHANGED prev
  \/ op = "none" /\ NifDeparseProtobuf(Argvs) /\ UNCHANGED prev
  \/ op = "none" /\ NifScan(Argvs) /\ UNCHANGED prev
  \/ op = "none" /\ NifFingerprint(Argvs) /\ UNCHANGED prev
  \/ op = "none" /\ NifNormalize(Argvs) /\ UNCHANGED prev
  \/ Return

Spec == Init /\ [][Next]_vars

(***************************************************************************)
(* Two calls of one operation in a row.  The engine is deterministic: an    *)
(* entry point that is handed the same input as in the call before gives    *)
(* the same answer.                                                         *)
(***************************************************************************)
Invoked(r) == r.engineArg # NoArg

EngineDeterministic ==
  (prev.op = op /\ Invoked(prev.ret) /\ Invoked(ret)
     /\ prev.ret.engineArg = ret.engineArg)
  => prev.ret.engineRes = ret.engineRes

Remember == prev' = [op |-> op, argv |-> argv, ret |-> ret]

\* A call of operation o may follow: none was made yet, or one call of o was.
MayCall(o) == prev.op = "none" /\ op \in {"none", o}

NextPair ==
  \/ MayCall("parse_protobuf") /\ NifParseProtobuf(PairArgvs)
       /\ Remember /\ EngineDeterministic'
  \/ MayCall("deparse_protobuf") /\ NifDeparseProtobuf(PairArgvs)
       /\ Remember /\ EngineDeterministic'
  \/ MayCall("scan") /\ NifScan(PairArgvs)
       /\ Remember /\ EngineDeterministic'
  \/ MayCall("fingerprint") /\ NifFingerprint(PairArgvs)
       /\ Remember /\ EngineDeterministic'
  \/ MayCall("normalize") /\ NifNormalize(PairArgvs)
       /\ Remember /\ EngineDeterministic'

SpecPair == Init /\ [][NextPair]_vars

(***************************************************************************)
(* Properties.  Each is about the state a call leaves behind.               *)
(***************************************************************************)
Done == op # "none"

StrOps == {"parse_protobuf", "scan", "fingerprint", "normalize"}

\* The size ceiling the specification gives each operation.
Ceiling(o) == IF o = "deparse_protobuf" THEN 32 * 1024 * 1024 ELSE 16 * 1024 * 1024

\* Positions in a trace of the events f on object x.
At(tr, f, x) == {i \in DOMAIN tr : tr[i].f = f /\ tr[i].x = x}

Engines(tr)  == At(tr, "engine", "result")
Releases(tr) == At(tr, "release", "result")
Reads(tr)    == At(tr, "read", "result")
Allocs(tr)   == At(tr, "enif_alloc", "query_str")
AllocFails(tr) == At(tr, "enif_alloc_failed", "query_str")
StrFrees(tr) == At(tr, "enif_free", "query_str")
Unpacks(tr)  == At(tr, "unpack", "msg")
UnpackFails(tr) == At(tr, "unpack_failed", "msg")
Checks(tr)   == At(tr, "check", "msg")
MsgFrees(tr) == At(tr, "free_unpacked", "msg")
PutFails(tr) == {i \in DOMAIN tr : tr[i].f = "enif_make_map_put_failed"}
InspectFails(tr) == At(tr, "enif_inspect_binary_failed", "argv")

\* Positions of the events that allocate, decode, call the engine, read its
\* result or free: all but a failed inspection of the argument.
Native(tr) == DOMAIN tr \ InspectFails(tr)

Before(I, J) == \A i \in I, j \in J : i < j

\* The shape of the body of a returned tuple: "binary", "map" or "none".
Shape(t) == CHOOSE s \in DOMAIN t.term : TRUE

\* C1: in each of the five operations, a Native Result the engine returned is
\* released exactly once, after the engine call and as the last native event
\* of the call, on every exit path (success, structured error, plain error,
\* failure to build the error map or the result map); a call that never
\* reached the engine releases nothing.
C1_ResultReleasedExactlyOnce ==
  Done =>
    /\ Cardinality(Engines(ret.trace)) = (IF Invoked(ret) THEN 1 ELSE 0)
    /\ Cardinality(Releases(ret.trace)) = Cardinality(Engines(ret.trace))
    /\ Before(Engines(ret.trace), Releases(ret.trace))
    /\ Releases(ret.trace) \subseteq {Len(ret.trace)}

\* The result map of fingerprint could not be built, and the result was released.
C1_Witness ==
  /\ op = "fingerprint"
  /\ ret.result = make_error("failed to create result map")
  /\ PutFails(ret.trace) # {}
  /\ Cardinality(Releases(ret.trace)) = 1

\* C2: in deparse_protobuf, when the decoder returns NULL or the consistency
\* check fails, the call returns {:error, "invalid protobuf message format"}
\* and the engine's deparse routine is not invoked; the routine is invoked
\* only after a successful decode and a successful check.
C2_MalformedNeverDeparsed ==
  (Done /\ op = "deparse_protobuf") =>
    /\ (\/ UnpackFails(ret.trace) # {}
        \/ \E i \in Checks(ret.trace) : ret.trace[i].fld = "false")
       => /\ ret.result = make_error("invalid protobuf message format")
          /\ Engines(ret.trace) = {}
          /\ ~Invoked(ret)
    /\ Engines(ret.trace) # {}
       => /\ Unpacks(ret.trace) # {} /\ UnpackFails(ret.trace) = {}
          /\ Checks(ret.trace) # {}
          /\ \A i \in Checks(ret.trace) : ret.trace[i].fld = "true"
          /\ Before(Unpacks(ret.trace), Checks(ret.trace))
          /\ Before(Checks(ret.trace), Engines(ret.trace))

\* The payload decoded but failed the check.
C2_Witness ==
  /\ op = "deparse_protobuf"
  /\ \E i \in Checks(ret.trace) : ret.trace[i].fld = "false"
  /\ ret.result = make_error("invalid protobuf message format")

\* The call fails a boundary check: wrong argument count, non-binary
\* argument, a binary the host fails to inspect, or a buffer longer than the
\* operation's ceiling.
FailsBoundary ==
  \/ Len(argv) # 1
  \/ argv[1].kind # "binary"
  \/ InspectFails(ret.trace) # {}
  \/ Size(argv[1]) > Ceiling(op)

\* C3: in each of the five operations, a call that fails a boundary check
\* returns an error without allocating a marshalled copy, without decoding
\* the payload and without invoking the engine: it leaves no native event,
\* and so nothing to release.
C3_BoundaryFailureTouchesNothing ==
  (Done /\ FailsBoundary) =>
    /\ ret.result.tag = "error"
    /\ ~ret.valid
    /\ Native(ret.trace) = {}
    /\ ~Invoked(ret)

\* deparse_protobuf refused a payload one byte above 32 MiB.
C3_Witness ==
  /\ op = "deparse_protobuf"
  /\ Len(argv) = 1 /\ argv[1].kind = "binary"
  /\ Size(argv[1]) = Ceiling(op) + 1
  /\ ret.result = make_error("input too large")
  /\ ret.trace = <<>>

\* C4 (as stated): validation classifies a call in the order arity, type,
\* size: an argument count other than 1 gives "invalid number of arguments"
\* whatever the argument; otherwise a non-binary gives "argument must be a
\* binary"; otherwise a length strictly above the ceiling (16 MiB; 32 MiB for
\* deparse_protobuf) gives "input too large"; otherwise validation succeeds,
\* so a buffer of exactly the ceiling's length is accepted.
C4_ValidationOrder ==
  Done =>
    IF Len(argv) # 1
      THEN ~ret.valid /\ ret.result = make_error("invalid number of arguments")
    ELSE IF argv[1].kind # "binary"
      THEN ~ret.valid /\ ret.result = make_error("argument must be a binary")
    ELSE IF Size(argv[1]) > Ceiling(op)
      THEN ~ret.valid /\ ret.result = make_error("input too large")
    ELSE ret.valid /\ Native(ret.trace) # {}

\* C4 (amended): validation classifies a call in the order arity, type,
\* inspection, size: an argument count other than 1 gives "invalid number of
\* arguments" whatever the argument; otherwise a non-binary gives "argument
\* must be a binary"; otherwise a binary the host fails to inspect gives
\* "failed to inspect binary input" whatever its length; otherwise a length
\* strictly above the ceiling (16 MiB; 32 MiB for deparse_protobuf) gives
\* "input too large"; otherwise validation succeeds, so an inspected buffer
\* of exactly the ceiling's length is accepted.
C4_ValidationOrderWithInspection ==
  Done =>
    IF Len(argv) # 1
      THEN ~ret.valid /\ ret.result = make_error("invalid number of arguments")
                      /\ ret.trace = <<>>
    ELSE IF argv[1].kind # "binary"
      THEN ~ret.valid /\ ret.result = make_error("argument must be a binary")
                      /\ ret.trace = <<>>
    ELSE IF InspectFails(ret.trace) # {}
      THEN ~ret.valid /\ ret.result = make_error("failed to inspect binary input")
                      /\ Native(ret.trace) = {}
    ELSE IF Size(argv[1]) > Ceiling(op)
      THEN ~ret.valid /\ ret.result = make_error("input too large")
    ELSE ret.valid /\ Native(ret.trace) # {}

\* A buffer of exactly 16 MiB was inspected and accepted by parse_protobuf.
C4_Witness ==
  /\ op = "parse_protobuf"
  /\ Len(argv) = 1 /\ argv[1].kind = "binary"
  /\ Size(argv[1]) = 16 * 1024 * 1024
  /\ InspectFails(ret.trace) = {}
  /\ ret.valid /\ Invoked(ret)

\* C5: in parse_protobuf, scan, fingerprint and normalize, a marshalled copy
\* that mk_cstr allocated is freed exactly once, after the engine call and
\* before the call returns, whether the engine succeeded or failed; when the
\* allocation fails the call returns an allocation error, the engine is not
\* invoked and nothing is freed.
C5_QueryStringFreedOnce ==
  (Done /\ op \in StrOps /\ ret.valid) =>
    /\ Cardinality(Allocs(ret.trace)) + Cardinality(AllocFails(ret.trace)) = 1
    /\ Allocs(ret.trace) # {}
       => /\ Cardinality(StrFrees(ret.trace)) = 1
          /\ Cardinality(Engines(ret.trace)) = 1
          /\ Before(Allocs(ret.trace), Engines(ret.trace))
          /\ Before(Engines(ret.trace), StrFrees(ret.trace))
    /\ AllocFails(ret.trace) # {}
       => /\ ret.result \in {make_error("memory allocation failed"),
                             make_error("input size too large")}
          /\ Engines(ret.trace) = {} /\ ~Invoked(ret)
          /\ StrFrees(ret.trace) = {}
          /\ Releases(ret.trace) = {}

\* The engine failed in normalize and the copy was freed after the call.
C5_Witness ==
  /\ op = "normalize"
  /\ Invoked(ret) /\ ret.engineRes.err
  /\ Cardinality(StrFrees(ret.trace)) = 1

\* C6: for an engine error of parse_protobuf or scan, the cursor position
\* returned to the caller is the engine's 1-indexed position minus one, -1
\* when the engine reports position 0, and within [-1, input_length], where
\* input_length is the length of the request buffer.
C6_CursorPosition ==
  (Done /\ op \in {"parse_protobuf", "scan"} /\ Invoked(ret)
        /\ ret.engineRes.err /\ Shape(ret.result) = "map") =>
    /\ ret.result.term.map.cursorpos = Integer(ret.engineRes.cursorpos - 1)
    /\ ret.engineRes.cursorpos = 0 => ret.result.term.map.cursorpos = Integer(-1)
    /\ ret.result.term.map.cursorpos.int >= -1
    /\ ret.result.term.map.cursorpos.int <= Size(argv[1])

\* scan reported an error at the end of a non-empty input.
C6_Witness ==
  /\ op = "scan"
  /\ Invoked(ret) /\ ret.engineRes.err /\ Shape(ret.result) = "map"
  /\ Size(argv[1]) > 0
  /\ ret.result.term.map.cursorpos = Integer(Size(argv[1]))

\* The failure class of a call, from what happened in it.
Class(o, a, r) ==
  IF ~r.valid
    THEN IF Len(a) # 1 THEN "InvalidArity"
         ELSE IF a[1].kind # "binary" THEN "InvalidArgumentType"
         ELSE IF InspectFails(r.trace) # {} THEN "InvalidArgumentType"
         ELSE "InputTooLarge"
  ELSE IF AllocFails(r.trace) # {} THEN "AllocationFailure"
  ELSE IF ~Invoked(r) THEN "MalformedPayload"
  ELSE IF PutFails(r.trace) # {} THEN "EncodingFailure"
  ELSE IF r.engineRes.err
    THEN IF o \in {"parse_protobuf", "scan"} THEN "EngineParseError" ELSE "EngineError"
  ELSE "Success"

\* C7: the failure classes are distinguishable by the caller from the
\* returned error value alone, in every operation: no failure of one class is
\* returned with the value or the shape of a failure of another class.
C7_DistinctValueAndShape ==
  (/\ prev.op # "none"
   /\ Class(prev.op, prev.argv, prev.ret) # "Success"
   /\ Class(op, argv, ret) # "Success"
   /\ Class(prev.op, prev.argv, prev.ret) # Class(op, argv, ret))
  => /\ ret.result # prev.ret.result
     /\ Shape(ret.result) # Shape(prev.ret.result)

\* C8: in deparse_protobuf the structure decoded for validation is freed
\* exactly once whenever the decoder returned one (check failed or passed),
\* never when the decoder returned NULL, and before the engine's deparse
\* routine is invoked; the engine is handed the bytes and the length of the
\* request buffer itself.
C8_DecodedCopyDiscarded ==
  (Done /\ op = "deparse_protobuf" /\ ret.valid) =>
    /\ Cardinality(Unpacks(ret.trace)) + Cardinality(UnpackFails(ret.trace)) = 1
    /\ Unpacks(ret.trace) # {}
       => /\ Cardinality(MsgFrees(ret.trace)) = 1
          /\ Before(Checks(ret.trace), MsgFrees(ret.trace))
    /\ UnpackFails(ret.trace) # {} => MsgFrees(ret.trace) = {}
    /\ Before(MsgFrees(ret.trace), Engines(ret.trace))
    /\ Invoked(ret)
       => ret.engineArg = [len |-> Size(argv[1]), data |-> argv[1].data,
                           fill |-> argv[1].fill]

\* A payload passed the check and was deparsed.
C8_Witness ==
  /\ op = "deparse_protobuf"
  /\ Invoked(ret)
  /\ Cardinality(MsgFrees(ret.trace)) = 1
  /\ Size(argv[1]) > 0

\* The fields of the Native Result whose content the returned term carries.
FieldsReturned(o, r) ==
  IF r.engineRes.err
    THEN IF Shape(r.result) = "map" THEN {"error.message", "error.cursorpos"}
         ELSE IF r.result = make_error(r.engineRes.message) THEN {"error.message"}
         ELSE {}
  ELSE IF r.result.tag # "ok" THEN {}
  ELSE CASE o = "parse_protobuf"   -> {"parse_tree.data", "parse_tree.len"}
         [] o = "scan"             -> {"pbuf.data", "pbuf.len"}
         [] o = "deparse_protobuf" -> {"query"}
         [] o = "normalize"        -> {"normalized_query"}
         [] o = "fingerprint"      -> {"fingerprint", "fingerprint_str"}

\* C9: in every operation the Native Result goes Allocated, Consumed,
\* Released: every read of one of its fields comes after the engine returned
\* it and before its release, nothing reads it after the release, and every
\* field whose content the returned term carries was read before the
\* release, on the success path and on every error path.
C9_ReadBeforeRelease ==
  (Done /\ Invoked(ret)) =>
    /\ Cardinality(Releases(ret.trace)) = 1
    /\ Reads(ret.trace) # {}
    /\ Before(Engines(ret.trace), Reads(ret.trace))
    /\ Before(Reads(ret.trace), Releases(ret.trace))
    /\ \A f \in FieldsReturned(op, ret) :
         \E i \in Reads(ret.trace) :
           /\ ret.trace[i].fld = f
           /\ Before({i}, Releases(ret.trace))

\* deparse_protobuf returned the engine's error message, read before the release.
C9_Witness ==
  /\ op = "deparse_protobuf"
  /\ Invoked(ret) /\ ret.engineRes.err
  /\ ret.result = make_error(ret.engineRes.message)
  /\ Reads(ret.trace) # {} /\ Releases(ret.trace) # {}

\* A request buffer up to its first zero byte.
UpToFirstZero(b) ==
  IF \E i \in 1..Len(b.data) : b.data[i] = 0
    THEN Bin(SubSeq(b.data, 1, FirstZero(b.data) - 1), 0)
    ELSE b

\* The responses of the host (memory, map building) to a call.
IsHostResponse(e) ==
  e.f \in {"enif_alloc", "enif_alloc_failed",
           "enif_make_map_put", "enif_make_map_put_failed"}

HostResponses(r) == SelectSeq(r.trace, IsHostResponse)

\* C10: for parse_protobuf, scan, fingerprint and normalize, two request
\* buffers within the ceiling that are equal up to their first zero byte
\* give the same result (the host answering alike): the engine reads the
\* copy only up to the first zero byte and the bytes after it are ignored.
C10_BytesAfterZeroIgnored ==
  (/\ prev.op = op /\ op \in StrOps
   /\ prev.ret.valid /\ ret.valid
   /\ UpToFirstZero(prev.argv[1]) = UpToFirstZero(argv[1])
   /\ HostResponses(prev.ret) = HostResponses(ret))
  => /\ ret.result = prev.ret.result
     /\ Invoked(ret)
        => ret.engineArg = [data |-> UpToFirstZero(argv[1]).data,
                            fill |-> UpToFirstZero(argv[1]).fill]

\* A buffer and the same buffer followed by a zero byte and more gave the
\* same parse result.
C10_Witness ==
  /\ op = "parse_protobuf" /\ prev.op = "parse_protobuf"
  /\ Invoked(prev.ret) /\ Invoked(ret)
  /\ Len(prev.argv[1].data) = 0
  /\ Len(argv[1].data) = 2 /\ argv[1].data[1] = 0 /\ argv[1].data[2] = 1
  /\ ret.result = prev.ret.result
====
